---- MODULE Spec2Model ----
(***************************************************************************)
(* State-machine model of yatracker/tracker/client.py: the session cache   *)
(* of AIOHTTPClient (get_session / close), the request path                *)
(* (request -> _make_request -> _check_status), the status mapping, the    *)
(* configuration built by BaseClient.__init__ and file preparation.        *)
(*                                                                         *)
(* One client instance is shared by a few asyncio tasks.  A task runs      *)
(* until it reaches an await; every action below is the code executed      *)
(* between two suspension points of one coroutine.                         *)
(*                                                                         *)
(* aiohttp is an external library.  What the model takes from it:          *)
(*   - a ClientSession is open when constructed;                           *)
(*   - ClientSession.close() marks the session closed before its first     *)
(*     suspension point (the connector's closed flag is set synchronously) *)
(*     and a closed session never reopens;                                 *)
(*   - session.request()/response.text() suspend, and end with a response  *)
(*     (status, text) or with a transport error.                           *)
(***************************************************************************)
EXTENDS Integers, FiniteSets, Sequences, TLC

VARIABLES
    session,      \* self._session: 0 is None, s > 0 the s-th session constructed
    created,      \* number of ClientSession objects constructed so far
    closed,       \* closed[s]: ClientSession.closed of session s
    closeIssued,  \* closeIssued[s]: times ClientSession.close() was issued on s (saturates at 2)
    pc,           \* pc[t]: where task t is suspended, or "idle"
    local,        \* local[t]: the session object held by the suspended coroutine of t
    issued,       \* issued[t]: HTTP requests issued by the latest request() call of t (saturates at 2)
    last,         \* the call step that produced the current state
    args,         \* the arguments the client was constructed with
    config,       \* self._headers, self._base_url, self._api_version
    file          \* the _prepare_file / _prepare_form call: argument, file system, result

vars == <<session, created, closed, closeIssued, pc, local, issued, last, args, config, file>>

\* what the session and request operations never assign
static == <<args, config, file>>

----------------------------------------------------------------------------
(* Bounds *)

NumTasks == 2
MaxSessions == 3

Tasks == 1..NumTasks
Sessions == 1..MaxSessions

----------------------------------------------------------------------------
(* Values *)

\* A Python str value and a Python dict value (only the keys the code reads).
Str(s) == [kind |-> "str", text |-> s, message |-> "", detail |-> ""]
Dict(m, d) == [kind |-> "dict", text |-> "", message |-> m, detail |-> d]

NoValue == [kind |-> "none", text |-> "", message |-> "", detail |-> ""]

\* Response bodies as returned by response.text(): always str.
Bodies ==
    { Str("internal error"),
      Str("{\"message\":\"not found\"}"),
      Str("{\"key\":\"TEST-1\"}") }

\* Status values handed to _check_status.
Statuses ==
    {100, 199, 200, 201, 204, 299, 300, 301, 302, 400, 401, 402, 403, 404, 405,
     408, 409, 410, 418, 499, 500, 502}

\* Status codes of the responses the server sends in the model.
ResponseStatuses == {200, 201, 204, 302, 401, 403, 404, 409, 418, 500}

HTTP_OK == 200
MULTIPLE_CHOICES == 300
UNAUTHORIZED == 401
FORBIDDEN == 403
NOT_FOUND == 404
CONFLICT == 409

Min(a, b) == IF a < b THEN a ELSE b

----------------------------------------------------------------------------
(* Pure functions *)

Returned(v) == [raised |-> "none", arg |-> NoValue, value |-> v]
Raised(e, a) == [raised |-> e, arg |-> a, value |-> NoValue]

\* variants of _check_status with one slip each
_check_status_swapped(status, text) ==
    IF status < MULTIPLE_CHOICES THEN Returned(NoValue)
    ELSE IF status = UNAUTHORIZED THEN Raised("NotAuthorizedError", NoValue)
    ELSE IF status = FORBIDDEN THEN Raised("ObjectNotFoundError", NoValue)
    ELSE IF status = NOT_FOUND THEN Raised("SufficientRightsError", NoValue)
    ELSE IF status = CONFLICT THEN Raised("AlreadyExistsError", NoValue)
    ELSE Raised("YaTrackerError", text)

_check_status_only_ok(status, text) ==
    IF status = HTTP_OK THEN Returned(NoValue)
    ELSE IF status = UNAUTHORIZED THEN Raised("NotAuthorizedError", NoValue)
    ELSE IF status = FORBIDDEN THEN Raised("SufficientRightsError", NoValue)
    ELSE IF status = NOT_FOUND THEN Raised("ObjectNotFoundError", NoValue)
    ELSE IF status = CONFLICT THEN Raised("AlreadyExistsError", NoValue)
    ELSE Raised("YaTrackerError", text)

_check_status_client_errors_only(status, text) ==
    IF status < MULTIPLE_CHOICES THEN Returned(NoValue)
    ELSE IF status = UNAUTHORIZED THEN Raised("NotAuthorizedError", NoValue)
    ELSE IF status = FORBIDDEN THEN Raised("SufficientRightsError", NoValue)
    ELSE IF status = NOT_FOUND THEN Raised("ObjectNotFoundError", NoValue)
    ELSE IF status = CONFLICT THEN Raised("AlreadyExistsError", NoValue)
    ELSE IF status < 500 THEN Raised("YaTrackerError", text)
    ELSE Returned(NoValue)

\* BaseClient._check_status(status, text)
_check_status(status, text) ==
    IF status < MULTIPLE_CHOICES THEN Returned(NoValue)
    ELSE IF status = UNAUTHORIZED THEN Raised("NotAuthorizedError", NoValue)
    ELSE IF status = FORBIDDEN THEN Raised("SufficientRightsError", NoValue)
    ELSE IF status = NOT_FOUND THEN Raised("ObjectNotFoundError", NoValue)
    ELSE IF status = CONFLICT THEN Raised("AlreadyExistsError", NoValue)
    ELSE Raised("YaTrackerError", text)

\* variant of _process_exception that drops the message
_process_exception_no_message(status, data) ==
    Raised("YaTrackerError", NoValue)

\* AIOHTTPClient._process_exception(status, data)
_process_exception(status, data) ==
    IF data.kind = "dict"
    THEN Raised("YaTrackerError",
                IF data.message # "" THEN Str(data.message) ELSE Str(data.detail))
    ELSE Raised("YaTrackerError", data)

\* AIOHTTPClient._make_request, from the response on: (status, text) or a raise
_make_request(status, text) ==
    IF status # HTTP_OK
    THEN _process_exception(status, text)
    ELSE Returned(text)

\* BaseClient.request, from the result of _make_request on
request_result(status, text) ==
    LET made == _make_request(status, text) IN
    IF made.raised # "none" THEN made
    ELSE LET checked == _check_status(status, made.value) IN
         IF checked.raised # "none" THEN checked
         ELSE Returned(made.value)

----------------------------------------------------------------------------
(* Call steps *)

Event(op, t, ret, new, status, body, res) ==
    [op |-> op, task |-> t, ret |-> ret, new |-> new,
     status |-> status, body |-> body,
     raised |-> res.raised, arg |-> res.arg, value |-> res.value]

NoEvent == Event("init", 0, 0, FALSE, 0, NoValue, Returned(NoValue))

----------------------------------------------------------------------------
(* Construction: BaseClient.__init__ *)

DEFAULT_API_HOST == "https://api.tracker.yandex.net"
DEFAULT_API_VERSION == "v2"

\* org_id: str | int
IntId(n) == [kind |-> "int", n |-> n, s |-> ""]
StrId(s) == [kind |-> "str", n |-> 0, s |-> s]

Digit(d) ==
    CASE d = 0 -> "0" [] d = 1 -> "1" [] d = 2 -> "2" [] d = 3 -> "3" [] d = 4 -> "4"
      [] d = 5 -> "5" [] d = 6 -> "6" [] d = 7 -> "7" [] d = 8 -> "8" [] d = 9 -> "9"

RECURSIVE Decimal(_)
Decimal(n) == IF n < 10 THEN Digit(n) ELSE Decimal(n \div 10) \o Digit(n % 10)

\* str(org_id)
py_str(v) == IF v.kind = "str" THEN v.s ELSE Decimal(v.n)

\* a dict[str, str] is a function from its keys; None is [none |-> TRUE]
EmptyDict == [k \in {} |-> ""]
NoHeaders == [none |-> TRUE, map |-> EmptyDict]
Headers(map) == [none |-> FALSE, map |-> map]

\* dict.setdefault(key, value)
setdefault(d, key, value) ==
    IF key \in DOMAIN d THEN d
    ELSE [k \in DOMAIN d \cup {key} |-> IF k = key THEN value ELSE d[k]]

\* d[key] = value
setitem(d, key, value) ==
    [k \in DOMAIN d \cup {key} |-> IF k = key THEN value ELSE d[k]]

\* variant of __init__ that assigns the two headers instead of defaulting them
__init__overwrites(a) ==
    LET copied == IF ~a.headers.none /\ DOMAIN a.headers.map # {}
                  THEN a.headers.map ELSE EmptyDict
        with_org == setitem(copied, "X-Org-Id", py_str(a.org_id))
        with_auth == setitem(with_org, "Authorization", "OAuth " \o a.token)
    IN  [api_version |-> IF a.api_version # "" THEN a.api_version ELSE DEFAULT_API_VERSION,
         base_url |-> IF a.api_host # "" THEN a.api_host ELSE DEFAULT_API_HOST,
         headers |-> with_auth]

\* BaseClient.__init__: the configuration it stores (None and "" are both
\* falsy for api_host and api_version, and are both written "")
__init__(a) ==
    LET copied == IF ~a.headers.none /\ DOMAIN a.headers.map # {}
                  THEN a.headers.map ELSE EmptyDict
        with_org == setdefault(copied, "X-Org-Id", py_str(a.org_id))
        with_auth == setdefault(with_org, "Authorization", "OAuth " \o a.token)
    IN  [api_version |-> IF a.api_version # "" THEN a.api_version ELSE DEFAULT_API_VERSION,
         base_url |-> IF a.api_host # "" THEN a.api_host ELSE DEFAULT_API_HOST,
         headers |-> with_auth]

\* the headers a caller passes in the model
CallerHeaderValue(k) ==
    CASE k = "X-Org-Id" -> "custom-org"
      [] k = "Authorization" -> "Bearer abc"
      [] k = "Accept" -> "text/plain"

HeaderArgs ==
    {NoHeaders} \cup
    {Headers([k \in keys |-> CallerHeaderValue(k)]) :
        keys \in SUBSET {"X-Org-Id", "Authorization", "Accept"}}

ConstructorArgs ==
    [org_id : {IntId(42), IntId(7), StrId("acme")},
     token : {"secret", "t0k"},
     headers : HeaderArgs,
     api_host : {"", "https://tracker.example"},
     api_version : {"", "v3"}]

DefaultArgs ==
    [org_id |-> IntId(42), token |-> "secret", headers |-> NoHeaders,
     api_host |-> "", api_version |-> ""]

\* no _prepare_file call in progress
NoFile == [phase |-> "none"]

----------------------------------------------------------------------------
(* The client *)

Init ==
    /\ args = DefaultArgs
    /\ config = __init__(args)
    /\ file = NoFile
    /\ session = 0
    /\ created = 0
    /\ closed = [s \in Sessions |-> FALSE]
    /\ closeIssued = [s \in Sessions |-> 0]
    /\ pc = [t \in Tasks |-> "idle"]
    /\ local = [t \in Tasks |-> 0]
    /\ issued = [t \in Tasks |-> 0]
    /\ last = NoEvent

\* variants of the test of get_session with one slip each
SessionIsOpen_no_cache == FALSE
SessionIsOpen_inverted == session # 0 /\ closed[session]
SessionIsOpen_no_closed_test == session # 0

\* the test of get_session: the cached session exists and is not closed
SessionIsOpen == session # 0 /\ ~closed[session]

\* variant of get_session that returns the new session without caching it
get_session_no_store(ret) ==
    IF SessionIsOpen
    THEN /\ ret = session
         /\ UNCHANGED <<session, created>>
    ELSE /\ created < MaxSessions
         /\ ret = created + 1
         /\ created' = created + 1
         /\ session' = session

\* AIOHTTPClient.get_session(), returning ret
get_session(ret) ==
    IF SessionIsOpen
    THEN /\ ret = session
         /\ UNCHANGED <<session, created>>
    ELSE /\ created < MaxSessions
         /\ ret = created + 1
         /\ created' = created + 1
         /\ session' = created + 1

\* a direct call of get_session() by task t
get_session_call(t) ==
    /\ pc[t] = "idle"
    /\ UNCHANGED static
    /\ \E ret \in Sessions :
        /\ get_session(ret)
        /\ last' = Event("get_session", t, ret, created' # created, 0, NoValue, Returned(NoValue))
    /\ UNCHANGED <<closed, closeIssued, pc, local, issued>>

\* request(): encode, _make_request up to the await of session.request()
request(t) ==
    /\ pc[t] = "idle"
    /\ UNCHANGED static
    /\ \E ret \in Sessions :
        /\ get_session(ret)
        /\ local' = [local EXCEPT ![t] = ret]
        /\ last' = Event("request_send", t, ret, created' # created, 0, NoValue, Returned(NoValue))
    /\ pc' = [pc EXCEPT ![t] = "awaiting"]
    /\ issued' = [issued EXCEPT ![t] = 1]
    /\ UNCHANGED <<closed, closeIssued>>

\* variant of the response step that sends the request again on a 5xx reply
request_response_retry(t, status, text) ==
    /\ pc[t] = "awaiting"
    /\ UNCHANGED static
    /\ IF status >= 500 /\ issued[t] < 2
       THEN /\ issued' = [issued EXCEPT ![t] = issued[t] + 1]
            /\ last' = Event("request_send", t, local[t], FALSE, 0, NoValue, Returned(NoValue))
            /\ UNCHANGED <<pc, local>>
       ELSE /\ pc' = [pc EXCEPT ![t] = "idle"]
            /\ local' = [local EXCEPT ![t] = 0]
            /\ last' = Event("request_done", t, local[t], FALSE, status, text,
                             request_result(status, text))
            /\ UNCHANGED issued
    /\ UNCHANGED <<session, created, closed, closeIssued>>

\* variant of the response step that drops the cached session on an error
request_response_drops_session(t, status, text) ==
    /\ pc[t] = "awaiting"
    /\ UNCHANGED static
    /\ pc' = [pc EXCEPT ![t] = "idle"]
    /\ local' = [local EXCEPT ![t] = 0]
    /\ last' = Event("request_done", t, local[t], FALSE, status, text,
                     request_result(status, text))
    /\ session' = IF request_result(status, text).raised # "none" THEN 0 ELSE session
    /\ UNCHANGED <<created, closed, closeIssued, issued>>

\* the response arrives: rest of _make_request, then _check_status, return body
request_response(t, status, text) ==
    /\ pc[t] = "awaiting"
    /\ UNCHANGED static
    /\ pc' = [pc EXCEPT ![t] = "idle"]
    /\ local' = [local EXCEPT ![t] = 0]
    /\ last' = Event("request_done", t, local[t], FALSE, status, text,
                     request_result(status, text))
    /\ UNCHANGED <<session, created, closed, closeIssued, issued>>

\* session.request() or response.text() fails in the transport
request_fail(t) ==
    /\ pc[t] = "awaiting"
    /\ UNCHANGED static
    /\ pc' = [pc EXCEPT ![t] = "idle"]
    /\ local' = [local EXCEPT ![t] = 0]
    /\ last' = Event("request_done", t, local[t], FALSE, 0, NoValue,
                     Raised("ClientError", NoValue))
    /\ UNCHANGED <<session, created, closed, closeIssued, issued>>

\* variants of the early returns of close() with one slip each
CloseReturnsEarly_no_closed_test == session = 0
CloseReturnsEarly_no_none_test == session # 0 /\ closed[session]

\* the two early returns of close()
CloseReturnsEarly == session = 0 \/ closed[session]

\* variant of close() that waits until no request is in flight
close_serialized(t) ==
    /\ pc[t] = "idle"
    /\ UNCHANGED static
    /\ \A u \in Tasks : pc[u] # "awaiting"
    /\ IF CloseReturnsEarly
       THEN /\ last' = Event("close_noop", t, session, FALSE, 0, NoValue, Returned(NoValue))
            /\ UNCHANGED <<closed, closeIssued, pc, local>>
       ELSE /\ closed' = [s \in Sessions |-> closed[s] \/ s = session]
            /\ closeIssued' = [s \in Sessions |->
                                  IF s = session THEN Min(closeIssued[s] + 1, 2)
                                  ELSE closeIssued[s]]
            /\ pc' = [pc EXCEPT ![t] = "closing"]
            /\ local' = [local EXCEPT ![t] = session]
            /\ last' = Event("close_start", t, session, FALSE, 0, NoValue, Returned(NoValue))
    /\ UNCHANGED <<session, created, issued>>

\* close() up to the await of self._session.close()
close(t) ==
    /\ pc[t] = "idle"
    /\ UNCHANGED static
    /\ IF CloseReturnsEarly
       THEN /\ last' = Event("close_noop", t, session, FALSE, 0, NoValue, Returned(NoValue))
            /\ UNCHANGED <<closed, closeIssued, pc, local>>
       ELSE /\ closed' = [s \in Sessions |-> closed[s] \/ s = session]
            /\ closeIssued' = [s \in Sessions |->
                                  IF s = session THEN Min(closeIssued[s] + 1, 2)
                                  ELSE closeIssued[s]]
            /\ pc' = [pc EXCEPT ![t] = "closing"]
            /\ local' = [local EXCEPT ![t] = session]
            /\ last' = Event("close_start", t, session, FALSE, 0, NoValue, Returned(NoValue))
    /\ UNCHANGED <<session, created, issued>>

\* self._session.close() completes; close() goes on to asyncio.sleep(0.25)
close_sleep(t) ==
    /\ pc[t] = "closing"
    /\ UNCHANGED static
    /\ pc' = [pc EXCEPT ![t] = "sleeping"]
    /\ last' = Event("close_sleep", t, local[t], FALSE, 0, NoValue, Returned(NoValue))
    /\ UNCHANGED <<session, created, closed, closeIssued, local, issued>>

\* variant of the end of close() that clears the session reference
close_done_resets(t) ==
    /\ pc[t] = "sleeping"
    /\ UNCHANGED static
    /\ pc' = [pc EXCEPT ![t] = "idle"]
    /\ local' = [local EXCEPT ![t] = 0]
    /\ last' = Event("close_done", t, local[t], FALSE, 0, NoValue, Returned(NoValue))
    /\ session' = 0
    /\ UNCHANGED <<created, closed, closeIssued, issued>>

\* the grace wait ends and close() returns
close_done(t) ==
    /\ pc[t] = "sleeping"
    /\ UNCHANGED static
    /\ pc' = [pc EXCEPT ![t] = "idle"]
    /\ local' = [local EXCEPT ![t] = 0]
    /\ last' = Event("close_done", t, local[t], FALSE, 0, NoValue, Returned(NoValue))
    /\ UNCHANGED <<session, created, closed, closeIssued, issued>>


Next ==
    \/ \E t \in Tasks : get_session_call(t)
    \/ \E t \in Tasks : request(t)
    \/ \E t \in Tasks, status \in ResponseStatuses, text \in Bodies :
           request_response(t, status, text)
    \/ \E t \in Tasks : request_fail(t)
    \/ \E t \in Tasks : close(t)
    \/ \E t \in Tasks : close_sleep(t)
    \/ \E t \in Tasks : close_done(t)

Spec == Init /\ [][Next]_vars

----------------------------------------------------------------------------
(* The static method _check_status on its own: the arguments are drawn in  *)
(* the initial state, the call is the only step.                           *)

InitStatus ==
    /\ args = DefaultArgs
    /\ config = __init__(args)
    /\ file = NoFile
    /\ session = 0
    /\ created = 0
    /\ closed = [s \in Sessions |-> FALSE]
    /\ closeIssued = [s \in Sessions |-> 0]
    /\ pc = [t \in Tasks |-> "idle"]
    /\ local = [t \in Tasks |-> 0]
    /\ issued = [t \in Tasks |-> 0]
    /\ \E status \in Statuses, text \in Bodies :
           last = Event("check_status_args", 0, 0, FALSE, status, text, Returned(NoValue))

\* the call _check_status(status, text) with the arguments drawn
check_status_call ==
    /\ last.op = "check_status_args"
    /\ UNCHANGED static
    /\ last' = Event("check_status", 0, 0, FALSE, last.status, last.body,
                     _check_status(last.status, last.body))
    /\ UNCHANGED <<session, created, closed, closeIssued, pc, local, issued>>

NextStatus == check_status_call

SpecStatus == InitStatus /\ [][NextStatus]_vars

----------------------------------------------------------------------------
(* Construction with every combination of arguments, then the operations   *)
(* of one task on the constructed client.                                  *)

InitConfig ==
    /\ args \in ConstructorArgs
    /\ config = __init__(args)
    /\ file = NoFile
    /\ session = 0
    /\ created = 0
    /\ closed = [s \in Sessions |-> FALSE]
    /\ closeIssued = [s \in Sessions |-> 0]
    /\ pc = [t \in Tasks |-> "idle"]
    /\ local = [t \in Tasks |-> 0]
    /\ issued = [t \in Tasks |-> 0]
    /\ last = NoEvent

NextConfig ==
    \/ get_session_call(1)
    \/ request(1)
    \/ \E status \in {200, 404}, text \in {Str("internal error")} :
           request_response(1, status, text)
    \/ request_fail(1)
    \/ close(1)
    \/ close_sleep(1)
    \/ close_done(1)

SpecConfig == InitConfig /\ [][NextConfig]_vars

----------------------------------------------------------------------------
(* File preparation: _prepare_file and _prepare_form on their own.  The     *)
(* argument and the file system are drawn in the initial state.            *)

\* a Python object passed as `file`: its type name, and for a path its text,
\* for a stream its identity and closed flag
FileObject(type, path, id, isClosed) ==
    [type |-> type, path |-> path, id |-> id, closed |-> isClosed]

NoObject == FileObject("NoneType", "", 0, FALSE)

Paths == {"a.txt", "b.bin"}
NewStreamId == 9

FileInputs ==
    {FileObject("str", p, 0, FALSE) : p \in Paths} \cup
    {FileObject("PosixPath", p, 0, FALSE) : p \in Paths} \cup
    {FileObject("BufferedReader", "a.txt", 1, FALSE),
     FileObject("BytesIO", "", 2, FALSE),
     FileObject("BufferedReader", "b.bin", 3, TRUE)} \cup
    {FileObject(ty, "", 0, FALSE) : ty \in {"int", "bytes", "NoneType", "list"}}

\* isinstance(file, str), isinstance(file, io.IOBase), isinstance(file, Path)
IsStr(f) == f.type = "str"
IsIOBase(f) == f.type \in {"BufferedReader", "BytesIO"}
IsPath(f) == f.type = "PosixPath"

FileResult(raised, msg, value, opened) ==
    [raised |-> raised, msg |-> msg, value |-> value, opened |-> opened, form |-> <<>>]

\* Path(path).open(mode) on a file system where the paths in fs exist
open(path, mode, fs) ==
    IF path \in fs
    THEN FileResult("none", "", FileObject("BufferedReader", path, NewStreamId, FALSE),
                    <<[path |-> path, mode |-> mode]>>)
    ELSE FileResult("FileNotFoundError", "", NoObject, <<[path |-> path, mode |-> mode]>>)

\* (in the messages below ' is written for the backquote of the source)

\* variant of _prepare_file without the Path branch
_prepare_file_no_path(f, fs) ==
    IF IsStr(f) THEN open(f.path, "rb", fs)
    ELSE IF IsIOBase(f) THEN FileResult("none", "", f, <<>>)
    ELSE FileResult("TypeError", "Not supported file type: '" \o f.type \o "'", NoObject, <<>>)

\* AIOHTTPClient._prepare_file(file)
_prepare_file(f, fs) ==
    IF IsStr(f) THEN open(f.path, "rb", fs)
    ELSE IF IsIOBase(f) THEN FileResult("none", "", f, <<>>)
    ELSE IF IsPath(f) THEN open(f.path, "rb", fs)
    ELSE FileResult("TypeError", "Not supported file type: '" \o f.type \o "'", NoObject, <<>>)

\* AIOHTTPClient._prepare_form(file): a form with the one field "file"
_prepare_form(f, fs) ==
    LET prepared == _prepare_file(f, fs) IN
    IF prepared.raised # "none" THEN prepared
    ELSE [prepared EXCEPT !.form = <<[name |-> "file", value |-> prepared.value]>>]

InitFile ==
    /\ args = DefaultArgs
    /\ config = __init__(args)
    /\ \E f \in FileInputs, fs \in SUBSET Paths :
           file = [phase |-> "args", arg |-> f, fs |-> fs,
                   res |-> FileResult("none", "", NoObject, <<>>)]
    /\ session = 0
    /\ created = 0
    /\ closed = [s \in Sessions |-> FALSE]
    /\ closeIssued = [s \in Sessions |-> 0]
    /\ pc = [t \in Tasks |-> "idle"]
    /\ local = [t \in Tasks |-> 0]
    /\ issued = [t \in Tasks |-> 0]
    /\ last = NoEvent

\* a call of _prepare_file(file)
prepare_file_call ==
    /\ file.phase = "args"
    /\ file' = [file EXCEPT !.phase = "file", !.res = _prepare_file(file.arg, file.fs)]
    /\ UNCHANGED <<session, created, closed, closeIssued, pc, local, issued, last, args, config>>

\* a call of _prepare_form(file)
prepare_form_call ==
    /\ file.phase = "args"
    /\ file' = [file EXCEPT !.phase = "form", !.res = _prepare_form(file.arg, file.fs)]
    /\ UNCHANGED <<session, created, closed, closeIssued, pc, local, issued, last, args, config>>

NextFile == prepare_file_call \/ prepare_form_call

SpecFile == InitFile /\ [][NextFile]_vars

TypeOK ==
    /\ session \in 0..MaxSessions
    /\ created \in 0..MaxSessions
    /\ closed \in [Sessions -> BOOLEAN]
    /\ closeIssued \in [Sessions -> 0..2]
    /\ pc \in [Tasks -> {"idle", "awaiting", "closing", "sleeping"}]
    /\ local \in [Tasks -> 0..MaxSessions]
    /\ issued \in [Tasks -> 0..2]

----------------------------------------------------------------------------
(* Session cache: get_session and close *)

GetOps == {"get_session", "request_send"}
CloseCallOps == {"close_noop", "close_start"}
OpenSessions == {s \in 1..created : ~closed[s]}

\* C1: at most one session constructed by the client is open at any time, and
\* whenever get_session() constructs a session, every session constructed
\* earlier is already closed.
C1_AtMostOneOpenSession ==
    /\ Cardinality(OpenSessions) <= 1
    /\ (last.op \in GetOps /\ last.new) =>
           \A s \in 1..created : s # last.ret => closed[s]

\* a request() constructed a second or later session
C1_Witness ==
    /\ last.op = "request_send"
    /\ last.new
    /\ last.ret >= 2
    /\ closed[last.ret - 1]

C2_Step ==
    (session # 0 /\ ~closed[session] /\ last'.op \in GetOps) =>
        /\ last'.ret = session
        /\ ~last'.new
        /\ session' = session
        /\ created' = created

\* C2: while the cached session is open, a get_session() call (direct or from
\* request()) returns that very session, constructs nothing and leaves the
\* session reference unchanged.
C2_OpenSessionReused == [][C2_Step]_vars

\* get_session() returned the cached open session without constructing one
C2_Witness ==
    /\ last.op \in GetOps
    /\ ~last.new
    /\ last.ret = session
    /\ ~closed[session]
    /\ created = 1

C3_Step ==
    (session # 0 /\ closed[session] /\ last'.op \in GetOps) =>
        /\ last'.new
        /\ last'.ret # session
        /\ last'.ret \notin 1..created
        /\ ~closed'[last'.ret]
        /\ session' = last'.ret

\* C3: when the cached session is closed, the next get_session() constructs a
\* new open session, different from the closed one, and caches it; no
\* get_session() ever returns a closed session.
C3_ClosedSessionReplaced ==
    /\ [](last.op \in GetOps => (last.ret # 0 /\ ~closed[last.ret]))
    /\ [][C3_Step]_vars

\* get_session() has replaced a session that close() had closed
C3_Witness ==
    /\ last.op = "get_session"
    /\ last.new
    /\ session = last.ret
    /\ ~closed[session]
    /\ \E s \in 1..created : closed[s] /\ closeIssued[s] = 1

C4_Step ==
    (session # 0 /\ closed[session] /\ last'.op \in CloseCallOps) =>
        /\ last'.op = "close_noop"
        /\ last'.raised = "none"
        /\ UNCHANGED <<session, created, closed, closeIssued, pc, local>>

\* C4: close() is idempotent: the session close is issued exactly once per
\* closed session, and a close() called when the cached session is already
\* closed returns without error, issues no close, performs no grace wait and
\* leaves the client state as it was.
C4_CloseIdempotent ==
    /\ [](\A s \in Sessions : closeIssued[s] = IF closed[s] THEN 1 ELSE 0)
    /\ [](last.op = "close_done" => closeIssued[last.ret] = 1)
    /\ [][C4_Step]_vars

\* a close() has found the session already closed by an earlier close()
C4_Witness ==
    /\ last.op = "close_noop"
    /\ session # 0
    /\ closed[session]
    /\ closeIssued[session] = 1
    /\ \A t \in Tasks : pc[t] = "idle"

C5_Step ==
    (created = 0 /\ last'.op \in CloseCallOps) =>
        /\ last'.op = "close_noop"
        /\ last'.raised = "none"
        /\ UNCHANGED <<session, created, closed, closeIssued, pc, local>>

\* C5: until the first get_session() the session reference is null, and a
\* close() on such a client returns without error, creates no session, issues
\* no close, performs no grace wait and leaves the reference null.
C5_CloseBeforeFirstUse ==
    /\ [](created = 0 => session = 0)
    /\ [][C5_Step]_vars

\* close() has returned on a client that never created a session
C5_Witness ==
    /\ last.op = "close_noop"
    /\ created = 0
    /\ session = 0
    /\ \A s \in Sessions : closeIssued[s] = 0

----------------------------------------------------------------------------
(* Status mapping: _check_status *)

Typed == {UNAUTHORIZED, FORBIDDEN, NOT_FOUND, CONFLICT}

\* C6: _check_status raises NotAuthorizedError exactly for 401,
\* SufficientRightsError exactly for 403, ObjectNotFoundError exactly for 404
\* and AlreadyExistsError exactly for 409.
C6_TypedErrorsExact ==
    last.op = "check_status" =>
        /\ last.raised = "NotAuthorizedError" <=> last.status = 401
        /\ last.raised = "SufficientRightsError" <=> last.status = 403
        /\ last.raised = "ObjectNotFoundError" <=> last.status = 404
        /\ last.raised = "AlreadyExistsError" <=> last.status = 409

\* _check_status(409, text) has raised AlreadyExistsError
C6_Witness ==
    /\ last.op = "check_status"
    /\ last.status = 409
    /\ last.raised = "AlreadyExistsError"

C7_Step ==
    (last.op = "check_status_args" /\ last.status < 300) =>
        /\ last'.op = "check_status"
        /\ last'.raised = "none"
        /\ last'.body = last.body

\* C7: for every status below 300 _check_status returns without raising,
\* whatever the body, and the body is after the call what it was before.
C7_SuccessBelow300 ==
    /\ []((last.op = "check_status" /\ last.status < 300) => last.raised = "none")
    /\ [][C7_Step]_vars

\* _check_status(299, text) has returned
C7_Witness ==
    /\ last.op = "check_status"
    /\ last.status = 299
    /\ last.raised = "none"

\* C8: for every status >= 300 other than 401, 403, 404 and 409 _check_status
\* raises YaTrackerError carrying the body text unchanged; every status yields
\* exactly one outcome: success below 300, a typed error for the four typed
\* statuses, YaTrackerError for the rest.
C8_GenericFallbackTotal ==
    last.op = "check_status" =>
        /\ (last.status >= 300 /\ last.status \notin Typed) =>
               (last.raised = "YaTrackerError" /\ last.arg = last.body)
        /\ last.raised = "none" <=> last.status < 300
        /\ last.raised = "YaTrackerError" <=>
               (last.status >= 300 /\ last.status \notin Typed)
        /\ last.raised \in {"none", "NotAuthorizedError", "SufficientRightsError",
                            "ObjectNotFoundError", "AlreadyExistsError", "YaTrackerError"}

\* _check_status(418, text) has raised YaTrackerError(text)
C8_Witness ==
    /\ last.op = "check_status"
    /\ last.status = 418
    /\ last.raised = "YaTrackerError"
    /\ last.arg = last.body
    /\ last.arg.kind = "str"

----------------------------------------------------------------------------
(* End to end: request() *)

TypedError(status) ==
    CASE status = 401 -> "NotAuthorizedError"
      [] status = 403 -> "SufficientRightsError"
      [] status = 404 -> "ObjectNotFoundError"
      [] status = 409 -> "AlreadyExistsError"

\* C9: when the server replies 401, 403, 404 or 409 to a request() call, the
\* caller of request() receives the typed error of the status mapping.
C9_TypedErrorReachesCaller ==
    (last.op = "request_done" /\ last.status \in Typed) =>
        last.raised = TypedError(last.status)

\* C10: _make_request returns (status, text) without raising for every
\* response status, and for every response status below 300 request() returns
\* the response body without raising.
C10_ExecutorNeverRaises ==
    (last.op = "request_done" /\ last.status \in ResponseStatuses) =>
        /\ _make_request(last.status, last.body).raised = "none"
        /\ last.status < 300 => (last.raised = "none" /\ last.value = last.body)

\* C11: when the server replies with a status >= 300 other than 401, 403,
\* 404 and 409 (500 with a plain-text body in particular), request() raises
\* YaTrackerError carrying exactly the body text, and the call ends with that
\* one raise.
C11_GenericErrorCarriesBody ==
    (last.op = "request_done" /\ last.status \in ResponseStatuses
        /\ last.status >= 300 /\ last.status \notin Typed) =>
        /\ last.raised = "YaTrackerError"
        /\ last.arg = last.body
        /\ last.value = NoValue
        /\ pc[last.task] = "idle"

\* request() has raised YaTrackerError("internal error") on a 500 reply
C11_Witness ==
    /\ last.op = "request_done"
    /\ last.status = 500
    /\ last.body = Str("internal error")
    /\ last.raised = "YaTrackerError"
    /\ last.arg = Str("internal error")

\* C12: a request() call issues at most one HTTP request, whatever the reply,
\* and a completed request() call has issued exactly one.
C12_SingleAttempt ==
    /\ \A t \in Tasks : issued[t] <= 1
    /\ \A t \in Tasks : pc[t] = "awaiting" => issued[t] = 1
    /\ last.op = "request_done" => issued[last.task] = 1

\* a request() call has completed on a 500 reply after one attempt
C12_Witness ==
    /\ last.op = "request_done"
    /\ last.status = 500
    /\ issued[last.task] = 1
    /\ pc[last.task] = "idle"

----------------------------------------------------------------------------
(* Configuration *)

ExpectedOrgText ==
    CASE args.org_id = IntId(42) -> "42"
      [] args.org_id = IntId(7) -> "7"
      [] args.org_id = StrId("acme") -> "acme"

ExpectedAuthText ==
    CASE args.token = "secret" -> "OAuth secret"
      [] args.token = "t0k" -> "OAuth t0k"

CallerKeys == IF args.headers.none THEN {} ELSE DOMAIN args.headers.map

C13_HeadersAsConfigured ==
    /\ DOMAIN config.headers = CallerKeys \cup {"X-Org-Id", "Authorization"}
    /\ \A k \in CallerKeys : config.headers[k] = args.headers.map[k]
    /\ "X-Org-Id" \notin CallerKeys => config.headers["X-Org-Id"] = ExpectedOrgText
    /\ "Authorization" \notin CallerKeys => config.headers["Authorization"] = ExpectedAuthText

\* C13: the headers configured at construction contain X-Org-Id and
\* Authorization; a caller-supplied header of either name keeps its value,
\* otherwise the value is str(org_id) resp. "OAuth <token>"; every other caller
\* header is kept; no operation changes the headers, base URL or API version.
C13_ConfigImmutable ==
    /\ []C13_HeadersAsConfigured
    /\ [][config' = config]_vars

\* the client was built with a caller-supplied Authorization header and no
\* X-Org-Id, and has since made a request and closed its session
C13_Witness ==
    /\ last.op = "close_done"
    /\ created = 1
    /\ args.org_id = IntId(42)
    /\ "Authorization" \in CallerKeys
    /\ "X-Org-Id" \notin CallerKeys
    /\ config.headers["Authorization"] = "Bearer abc"
    /\ config.headers["X-Org-Id"] = "42"

----------------------------------------------------------------------------
(* File preparation *)

ExpectedTypeMessage(type) ==
    CASE type = "int" -> "Not supported file type: 'int'"
      [] type = "bytes" -> "Not supported file type: 'bytes'"
      [] type = "NoneType" -> "Not supported file type: 'NoneType'"
      [] type = "list" -> "Not supported file type: 'list'"

\* C14: _prepare_file / _prepare_form open a string path and a path object
\* for binary reading (one open of that path in mode "rb", whose stream or
\* error is the result), return an already-open stream as the identical
\* object without opening or closing anything, and fail every other type with
\* TypeError naming the type received, with no file opened.
C14_FileNormalization ==
    file.phase \in {"file", "form"} =>
        LET a == file.arg
            r == file.res
        IN  /\ a.type \in {"str", "PosixPath"} =>
                   /\ r.opened = <<[path |-> a.path, mode |-> "rb"]>>
                   /\ a.path \in file.fs =>
                          /\ r.raised = "none"
                          /\ r.value.path = a.path
                          /\ r.value.id = NewStreamId
                          /\ ~r.value.closed
                   /\ a.path \notin file.fs => r.raised = "FileNotFoundError"
            /\ a.type \in {"BufferedReader", "BytesIO"} =>
                   /\ r.raised = "none"
                   /\ r.value = a
                   /\ r.opened = <<>>
            /\ a.type \in {"int", "bytes", "NoneType", "list"} =>
                   /\ r.raised = "TypeError"
                   /\ r.msg = ExpectedTypeMessage(a.type)
                   /\ r.opened = <<>>
            /\ r.form = IF file.phase = "form" /\ r.raised = "none"
                        THEN <<[name |-> "file", value |-> r.value]>>
                        ELSE <<>>

\* _prepare_form has opened an existing path object for binary reading
C14_Witness ==
    /\ file.phase = "form"
    /\ file.arg.type = "PosixPath"
    /\ file.arg.path \in file.fs
    /\ file.res.raised = "none"
    /\ file.res.opened = <<[path |-> file.arg.path, mode |-> "rb"]>>
    /\ Len(file.res.form) = 1

----------------------------------------------------------------------------
(* Response bodies as JSON *)

KeyBody == Str("{\"key\":\"TEST-1\"}")
MessageBody == Str("{\"message\":\"not found\"}")

\* the mapping {"key": "TEST-1"}
KeyMapping ==
    [kind |-> "dict", text |-> "", message |-> "", detail |-> "", key |-> "TEST-1"]

\* what JSON decoding makes of each body text of the model; a text that is
\* not JSON stays the text
DecodedBody(text) ==
    CASE text = KeyBody -> KeyMapping
      [] text = MessageBody -> Dict("not found", "")
      [] OTHER -> text

\* C15: a request() whose reply is 200 with body {"key":"TEST-1"} returns the
\* JSON-decoded mapping {"key": "TEST-1"}, not the raw body text.
C15_DecodedBodyReturned ==
    (last.op = "request_done" /\ last.status = 200 /\ last.body = KeyBody) =>
        /\ last.raised = "none"
        /\ last.value.kind = "dict"
        /\ last.value = DecodedBody(last.body)

\* C16: as long as no session has been closed, every request in flight uses
\* the one cached session and exactly one session has been constructed,
\* however the request() calls interleave.
C16_ConcurrentRequestsShareSession ==
    (\A s \in Sessions : closeIssued[s] = 0) =>
        /\ created <= 1
        /\ \A t \in Tasks : pc[t] = "awaiting" => (local[t] = 1 /\ local[t] = session)
        /\ last.op \in GetOps => (last.ret = 1 /\ session = 1)

\* every task has a request in flight on the one session constructed
C16_Witness ==
    /\ \A t \in Tasks : pc[t] = "awaiting" /\ local[t] = 1
    /\ created = 1
    /\ \A s \in Sessions : closeIssued[s] = 0

\* C17: nothing serializes close() against requests in flight: whenever a
\* request is suspended on the open cached session and another task is free,
\* that task can run close(), which closes the session under the request
\* while the request stays in flight.
C17_CloseRacesInFlightRequest ==
    \A t \in Tasks, u \in Tasks :
        (pc[t] = "awaiting" /\ local[t] = session /\ ~closed[session] /\ pc[u] = "idle") =>
            ENABLED (close(u) /\ closed'[local[t]] /\ pc'[t] = "awaiting")

\* close() has closed the session of a request that is still in flight
C17_Witness ==
    /\ last.op = "close_start"
    /\ \E t \in Tasks : pc[t] = "awaiting" /\ local[t] = last.ret /\ closed[local[t]]

C18_Step ==
    (last'.op = "request_done" /\ last'.status \in ResponseStatuses
        /\ last'.raised # "none") =>
        UNCHANGED <<session, created, closed, closeIssued, config>>

C18_NextStep ==
    (last.op = "request_done" /\ last.status \in ResponseStatuses /\ last.raised # "none"
        /\ session = last.ret /\ ~closed[session] /\ last'.op = "request_send") =>
        (last'.ret = last.ret /\ ~last'.new /\ session' = session)

\* C18: a request() that ends by raising an API error changes nothing in the
\* client: the cached session is the same object in the same state, the next
\* request() reuses it, and the outcome of a request() is determined by its
\* own response alone.
C18_ErrorLeavesClientUnchanged ==
    /\ []((last.op = "request_done" /\ last.status \in ResponseStatuses) =>
            /\ last.raised = "none" <=> last.status = 200
            /\ last.raised = "none" => last.value = last.body
            /\ last.raised # "none" => last.arg = last.body)
    /\ [][C18_Step]_vars
    /\ [][C18_NextStep]_vars

\* request() has raised on a 500 reply and its session is still cached and open
C18_Witness ==
    /\ last.op = "request_done"
    /\ last.status = 500
    /\ last.raised = "YaTrackerError"
    /\ session = last.ret
    /\ ~closed[session]

\* C19: on a non-200 reply whose body is a JSON mapping, the YaTrackerError
\* raised by the executor carries the value under `message`, or under
\* `detail` when `message` is absent or empty; it carries the raw body text
\* only when the body is not a JSON mapping.
C19_ErrorCarriesMessageKey ==
    (last.op = "request_done" /\ last.status \in ResponseStatuses /\ last.status # 200) =>
        LET data == DecodedBody(last.body) IN
        /\ last.raised = "YaTrackerError"
        /\ last.arg = IF data.kind = "dict"
                      THEN (IF data.message # "" THEN Str(data.message) ELSE Str(data.detail))
                      ELSE last.body

CloseOps == {"close_noop", "close_start", "close_sleep", "close_done"}

C20_Step ==
    last'.op \in CloseOps =>
        /\ session' = session
        /\ created' = created
        /\ last'.op # "close_start" => closed' = closed
        /\ last'.op = "close_start" =>
               /\ last'.ret = session
               /\ \A s \in Sessions : closed'[s] = (closed[s] \/ s = session)

\* C20: close() never assigns the session reference and closes only the
\* session that was cached when it started: a session that get_session()
\* creates while a close() is suspended is left alone by that close().
C20_CloseTouchesOnlyItsSession ==
    /\ [](\A t \in Tasks : pc[t] \in {"closing", "sleeping"} => closed[local[t]])
    /\ [][C20_Step]_vars

\* a close() has returned while a newer session, created during its wait, is
\* the open cached session
C20_Witness ==
    /\ last.op = "close_done"
    /\ session # 0
    /\ session # last.ret
    /\ ~closed[session]
    /\ closed[last.ret]

====
